---- MODULE Spec2Model ----
(***************************************************************************)
(* Model of global_optimization/Frame.py (class Frame): the optimisation   *)
(* engine that renders a synthetic z-stack from a list of cells, scores it *)
(* against the real stack (L2 norm) and improves the cells by single-cell  *)
(* perturbation (perturb + finalize callback) and by finite-difference     *)
(* gradient descent.                                                       *)
(*                                                                         *)
(* Numbers.  Python floats are held in fixed point:                        *)
(*   - a cost is an integer number of CostUnit-ths (thousandths, 1/delta), *)
(*     the L2 norm truncated to that precision;                            *)
(*   - a cell parameter is an integer number of ParamUnit-ths (tenths,     *)
(*     1/alpha) of a pixel.                                                *)
(* With these units (new_cost - orig_cost) / delta and -alpha * gradient   *)
(* are exact integer operations.                                           *)
(*                                                                         *)
(* Objects.  self.cells is a reference to the list object the caller       *)
(* passed (Frame.__init__ does not copy it): lists live in `heap` and a    *)
(* Frame holds a list id.  real_image_stack is a copy (np.array).          *)
(***************************************************************************)
EXTENDS Integers, Sequences, FiniteSets, TLC

\* ------------------------------------------------------------------ bounds
MaxOps == 2        \* operations (perturb trials, gradient passes) per run
MaxCells == 2      \* longest initial cell list

\* --------------------------------------------- gradient_descent's constants
moving_delta == 1  \* moving_delta = 1     (probe step, in pixels)
inv_delta == 1000  \* delta = 1e-3         (held as 1/delta)
inv_alpha == 10    \* alpha = 0.1          (held as 1/alpha)

CostUnit == inv_delta    \* costs are counted in units of delta
ParamUnit == inv_alpha   \* parameters are counted in units of alpha

\* -------------------------------------------------------------- Cell (Cells.py)
\* A cell is its parameter record: a name and numeric fields.  Two shapes:
\* a sphere (x, y, z, radius) and a bar (x only: a vertical stripe through
\* every row and slice), the latter a cell with a single tunable parameter.
cell_color == 2
bar_halfwidth == 5

ParamOrder == <<"name", "x", "y", "z", "radius">>

Sphere(nm, x, y, z, r) == [name |-> nm, x |-> x, y |-> y, z |-> z, radius |-> r]
Bar(nm, x) == [name |-> nm, x |-> x]

\* cell.get_cell_params().__dict__ : the parameter names in field order
RECURSIVE FilterSeq(_, _)
FilterSeq(s, S) ==
    IF s = <<>> THEN <<>>
    ELSE IF Head(s) \in S THEN <<Head(s)>> \o FilterSeq(Tail(s), S)
         ELSE FilterSeq(Tail(s), S)

get_cell_params(cell) == FilterSeq(ParamOrder, DOMAIN cell)

\* cell.get_paramaterized_cell(deltas): a new cell, every numeric parameter named
\* in deltas shifted by its delta (deltas in parameter units)
get_paramaterized_cell(cell, deltas) ==
    [p \in DOMAIN cell |->
        IF p # "name" /\ p \in DOMAIN deltas THEN cell[p] + deltas[p] ELSE cell[p]]

\* cell.get_perturbed_cell(): a new cell with randomly nudged parameters; the
\* random draw is the argument
Nudges(cell) ==
    IF "radius" \in DOMAIN cell
    THEN {[x |-> -ParamUnit], [radius |-> ParamUnit]}
    ELSE {[x |-> ParamUnit], [x |-> -ParamUnit]}

get_perturbed_cell(cell, nudge) == get_paramaterized_cell(cell, nudge)

Sq(a) == a * a
Abs(a) == IF a < 0 THEN -a ELSE a

\* whether pixel (row, col) of the slice at depth z lies inside the cell
InsideCell(cell, row, col, z) ==
    LET dx == col * ParamUnit - cell.x IN
    IF "radius" \in DOMAIN cell
    THEN LET dy == row * ParamUnit - cell.y
             dz == z * ParamUnit - cell.z
             r  == cell.radius
         IN  /\ r >= 0
             /\ Abs(dx) <= r /\ Abs(dy) <= r /\ Abs(dz) <= r
             /\ Sq(dx) + Sq(dy) + Sq(dz) <= Sq(r)
    ELSE Abs(dx) <= bar_halfwidth

\* cell.draw(image, config, z): paints the cell's pixels onto the image
draw(image, shape, cell, z) ==
    [r \in 1..shape[1] |->
        [c \in 1..shape[2] |->
            IF InsideCell(cell, r - 1, c - 1, z) THEN cell_color ELSE image[r][c]]]

\* ------------------------------------------------------------- numpy helpers
\* np.full(shape, v)
Full(shape, v) == [r \in 1..shape[1] |-> [c \in 1..shape[2] |-> v]]

\* stack.shape
Shape(stack) ==
    <<Len(stack),
      IF Len(stack) = 0 THEN 0 ELSE Len(stack[1]),
      IF Len(stack) = 0 \/ Len(stack[1]) = 0 THEN 0 ELSE Len(stack[1][1])>>

\* sum of the squared element-wise differences of two rows, images, stacks
RECURSIVE SumSqRow(_, _, _)
SumSqRow(ra, rb, c) ==
    IF c = 0 THEN 0 ELSE Sq(ra[c] - rb[c]) + SumSqRow(ra, rb, c - 1)

RECURSIVE SumSqImage(_, _, _, _)
SumSqImage(ia, ib, r, w) ==
    IF r = 0 THEN 0 ELSE SumSqRow(ia[r], ib[r], w) + SumSqImage(ia, ib, r - 1, w)

RECURSIVE SumSqStack(_, _, _, _, _)
SumSqStack(a, b, k, h, w) ==
    IF k = 0 THEN 0 ELSE SumSqImage(a[k], b[k], h, w) + SumSqStack(a, b, k - 1, h, w)

\* np.linalg.norm's sum of squares of a - b, over the shape of a
SumSqDiff(a, b) == SumSqStack(a, b, Shape(a)[1], Shape(a)[2], Shape(a)[3])

\* the integer square root (Newton's iteration from above)
RECURSIVE IsqrtIter(_, _)
IsqrtIter(n, x) ==
    LET y == (x + n \div x) \div 2 IN
    IF y >= x THEN x ELSE IsqrtIter(n, y)

Isqrt(n) == IF n = 0 THEN 0 ELSE IsqrtIter(n, n)

\* ------------------------------------------------------------ Frame's functions
\* a variant of ZSlices that forgets to centre the slices on zero
ZSlicesFromZero(cfg) == [i \in 1..cfg.z_slices |-> cfg.z_scaling * (i - 1)]

\* Frame.__init__, line 18: the z-slice coordinates
ZSlices(cfg) ==
    [i \in 1..cfg.z_slices |-> cfg.z_scaling * ((i - 1) - cfg.z_slices \div 2)]

\* a variant of pad_real_image that leaves out constant_values (np.pad's 0)
pad_real_image_zeros(stack, cfg) ==
    LET p == cfg.padding IN
    [k \in 1..Len(stack) |->
        [r \in 1..(Len(stack[k]) + 2 * p) |->
            [c \in 1..(Len(stack[k][1]) + 2 * p) |->
                IF /\ r > p /\ r <= p + Len(stack[k])
                   /\ c > p /\ c <= p + Len(stack[k][1])
                THEN stack[k][r - p][c - p]
                ELSE 0]]]

\* Frame.pad_real_image: np.pad(..., mode='constant', constant_values=background)
pad_real_image(stack, cfg) ==
    LET p == cfg.padding IN
    [k \in 1..Len(stack) |->
        [r \in 1..(Len(stack[k]) + 2 * p) |->
            [c \in 1..(Len(stack[k][1]) + 2 * p) |->
                IF /\ r > p /\ r <= p + Len(stack[k])
                   /\ c > p /\ c <= p + Len(stack[k][1])
                THEN stack[k][r - p][c - p]
                ELSE cfg.background_color]]]

\* Frame.get_image_shape
get_image_shape(real) == <<Shape(real)[2], Shape(real)[3]>>

\* the inner loop of generate_synth_images: every cell drawn in list order
RECURSIVE DrawAll(_, _, _, _)
DrawAll(image, shape, cellseq, z) ==
    IF cellseq = <<>> THEN image
    ELSE DrawAll(draw(image, shape, Head(cellseq), z), shape, Tail(cellseq), z)

\* Frame.generate_synth_images, for a cell list that is set
generate_synth_images(cellseq, zs, shape, cfg) ==
    [i \in 1..Len(zs) |->
        DrawAll(Full(shape, cfg.background_color), shape, cellseq, zs[i])]

\* Frame.calculate_cost: float(np.linalg.norm(real - synth)), in cost units
calculate_cost(real, synth) == Isqrt(SumSqDiff(real, synth) * CostUnit * CostUnit)


\* the divide by delta of line 166, on costs held in cost units
Gradient(new_cost, orig_cost) == ((new_cost - orig_cost) * inv_delta) \div CostUnit

\* a variant of Direction that climbs the gradient
DirectionAscent(gradient) == (gradient * ParamUnit) \div inv_alpha

\* line 172: -1 * alpha * gradient, in parameter units
Direction(gradient) == -((gradient * ParamUnit) \div inv_alpha)

\* a variant of CellsNotSet that also refuses an empty list
CellsNotSetOrEmpty(ref, lst) == ref = 0 \/ lst = <<>>

\* line 44: generate_synth_images raises ValueError("Cells are not set") only
\* when self.cells is None (reference 0); an empty list is a list that is set
CellsNotSet(ref, lst) == ref = 0

\* line 104: random.randint(0, len(self.cells) - 1), as 1-based positions; the
\* empty range makes randint raise ValueError
RandIndex(n) == 1..n

\* lines 121-125: what the finalize callback leaves at the trial's index ...
CallbackCell(accept, current_cell, old_cell) ==
    IF accept THEN old_cell ELSE current_cell

\* a variant of CallbackStack that never replaces the cache
CallbackStackForgets(accept, cached_stack, new_stack) == cached_stack

\* ... and in the cache
CallbackStack(accept, cached_stack, new_stack) ==
    IF accept THEN cached_stack ELSE new_stack

\* a variant of ResetCell that leaves the probed cell in the list
ResetCellKeepsProbe(probed_cell, old_cell) == probed_cell

\* line 168: self.cells[index] = old_cell after each probe
ResetCell(probed_cell, old_cell) == old_cell

\* line 157: perterb_param[param] = moving_delta
PerterbParam(param) == [p \in {param} |-> moving_delta * ParamUnit]

\* line 140: the baseline of every gradient of a pass
OrigCost(real, cached_stack) == calculate_cost(real, cached_stack)

\* line 152: the name field is passed over, every other field is probed
SkipParam(param) == param = "name"

\* the parameters the loop of lines 151-168 probes, in field order
Tunable(cell) == FilterSeq(get_cell_params(cell), {p \in DOMAIN cell : ~SkipParam(p)})

\* lines 175-176: every cell shifted by its accumulated directions
ApplyDirections(cellseq, directions) ==
    [i \in 1..Len(cellseq) |-> get_paramaterized_cell(cellseq[i], directions[i])]

NoParams == [p \in {} |-> 0]

\* ------------------------------------------------------------------- inputs
SliceCounts == {1, 2, 3}
ZScalings == {1, 2}
Paddings == {0, 1}
Backgrounds == {0, 1}
SourceShape == <<2, 2>>

Configs ==
    [z_slices : SliceCounts, z_scaling : ZScalings,
     padding : Paddings, background_color : Backgrounds]

CellPool ==
    <<Sphere("a", 10, 10, 0, 10),
      Bar("bar", 10),
      Sphere("b", 20, 0, 10, 10)>>

\* the initial cell lists: runs of the pool of at most MaxCells cells
CellLists ==
    {SubSeq(CellPool, i, j) :
        i \in 1..Len(CellPool), j \in 0..Len(CellPool)} \cap
    UNION {[1..k -> {CellPool[i] : i \in 1..Len(CellPool)}] : k \in 0..MaxCells}

\* the real stacks handed to the constructor: one slice per configured z-slice;
\* uniform stacks, and the stack the cells themselves render to
Uniform(cfg, v) == [k \in 1..cfg.z_slices |-> Full(SourceShape, v)]

SourceImages(cfg, lst) ==
    {Uniform(cfg, 1), generate_synth_images(lst, ZSlices(cfg), SourceShape, cfg)}

\* -------------------------------------------------------------------- state
VARIABLES
    ops,                \* operations started so far
    heap,               \* the caller's list objects: list id -> sequence of cells
    source,             \* the caller's image arrays (self._real_image_stack)
    simulation_config,  \* self.simulation_config
    cells,              \* self.cells: a list id, 0 for None
    z_slices,           \* self.z_slices
    real_image_stack,   \* self.real_image_stack
    synth_image_stack,  \* self.synth_image_stack
    pc,                 \* absent | new | failed | idle | trial | gd
    outcome,            \* how the last call on the Frame ended
    trial,              \* perturb's closure: index, old_cell, new stack, return
    gd,                 \* gradient_descent's locals
    pre,                \* history: cells and cache when the running call began
    note,               \* history: the last call and the callback's decision
    probe,              \* history: the cell sequence of the last probe render
    actor               \* history: who took the last step (0: the caller)

vars == <<ops, heap, source, simulation_config, cells, z_slices,
          real_image_stack, synth_image_stack, pc, outcome, trial, gd, pre,
          note, probe, actor>>

\* the Frame objects of a run; a Frame the caller never builds stays "absent"
Frames == {1, 2}

Cells(f) == heap[cells[f]]

NoCell == [name |-> ""]
NoTrial == [index |-> 0, old_cell |-> NoCell, new_cell |-> NoCell,
            new_synth_image_stack |-> <<>>, improvement |-> 0]
NoGd == [orig_cost |-> 0, index |-> 0, k |-> 0, old_cell |-> NoCell,
         param_gradients |-> NoParams, directions |-> <<>>]
NoPre == [cells |-> <<>>, synth |-> <<>>]
NoProbe == [cells |-> <<>>, index |-> 0, param |-> "", new_cost |-> 0,
            shape |-> <<0, 0, 0>>]
NoNote == [op |-> "none", accept |-> FALSE]

Render(f, cellseq) ==
    generate_synth_images(cellseq, z_slices[f],
                          get_image_shape(real_image_stack[f]),
                          simulation_config[f])

NoConfig == [z_slices |-> 0, z_scaling |-> 0, padding |-> 0, background_color |-> 0]

InitFields ==
    /\ ops = 0
    /\ z_slices = [f \in Frames |-> <<>>]
    /\ real_image_stack = [f \in Frames |-> <<>>]
    /\ synth_image_stack = [f \in Frames |-> <<>>]
    /\ outcome = [f \in Frames |-> "none"]
    /\ trial = [f \in Frames |-> NoTrial]
    /\ gd = [f \in Frames |-> NoGd]
    /\ pre = [f \in Frames |-> NoPre]
    /\ note = [f \in Frames |-> NoNote]
    /\ probe = [f \in Frames |-> NoProbe]
    /\ actor = 0

\* one Frame about to be constructed, over every configuration, cell list
\* (or None) and real stack
Init ==
    /\ InitFields
    /\ pc = <<"new", "absent">>
    /\ \E cfg \in Configs, lst \in CellLists, ref \in {0, 1} :
        /\ ref = 0 => lst = <<>>
        /\ simulation_config = <<cfg, NoConfig>>
        /\ heap = <<lst, <<>> >>
        /\ cells = <<ref, 0>>
        /\ \E img \in SourceImages(cfg, lst) : source = <<img, <<>> >>

\* ------------------------------------------------------------------ actions
\* Frame.__init__
Construct(f) ==
    /\ pc[f] = "new"
    /\ z_slices' = [z_slices EXCEPT ![f] = ZSlices(simulation_config[f])]
    /\ real_image_stack' =
          [real_image_stack EXCEPT ![f] = pad_real_image(source[f], simulation_config[f])]
    /\ IF CellsNotSet(cells[f], IF cells[f] = 0 THEN <<>> ELSE Cells(f))
       THEN /\ pc' = [pc EXCEPT ![f] = "failed"]
            /\ outcome' = [outcome EXCEPT ![f] = "ValueError"]
            /\ UNCHANGED synth_image_stack
       ELSE /\ pc' = [pc EXCEPT ![f] = "idle"]
            /\ outcome' = [outcome EXCEPT ![f] = "ok"]
            /\ synth_image_stack' =
                  [synth_image_stack EXCEPT ![f] =
                      generate_synth_images(
                          IF cells[f] = 0 THEN <<>> ELSE Cells(f), z_slices'[f],
                          get_image_shape(real_image_stack'[f]),
                          simulation_config[f])]
    /\ note' = [note EXCEPT ![f] = [op |-> "construct", accept |-> FALSE]]
    /\ actor' = f
    /\ UNCHANGED <<ops, heap, source, simulation_config, cells, trial,
                   gd, pre, probe>>

\* Frame.perturb, up to its return
Perturb(f) ==
    /\ pc[f] = "idle"
    /\ ops < MaxOps
    /\ ops' = ops + 1
    /\ actor' = f
    /\ note' = [note EXCEPT ![f] = [op |-> "perturb", accept |-> FALSE]]
    /\ pre' = [pre EXCEPT ![f] = [cells |-> Cells(f), synth |-> synth_image_stack[f]]]
    /\ probe' = [probe EXCEPT ![f] = NoProbe]
    /\ IF RandIndex(Len(Cells(f))) = {}
       THEN /\ outcome' = [outcome EXCEPT ![f] = "ValueError"]
            /\ trial' = [trial EXCEPT ![f] = NoTrial]
            /\ UNCHANGED <<heap, pc>>
       ELSE \E index \in RandIndex(Len(Cells(f))) :
            \E nudge \in Nudges(Cells(f)[index]) :
              LET old_cell == Cells(f)[index]
                  new_cell == get_perturbed_cell(old_cell, nudge)
                  new_list == [Cells(f) EXCEPT ![index] = new_cell]
                  new_synth_image_stack == Render(f, new_list)
                  new_cost == calculate_cost(real_image_stack[f], new_synth_image_stack)
                  old_cost == calculate_cost(real_image_stack[f], synth_image_stack[f])
              IN  /\ heap' = [heap EXCEPT ![cells[f]] = new_list]
                  /\ trial' = [trial EXCEPT ![f] =
                        [index |-> index, old_cell |-> old_cell, new_cell |-> new_cell,
                         new_synth_image_stack |-> new_synth_image_stack,
                         improvement |-> old_cost - new_cost]]
                  /\ outcome' = [outcome EXCEPT ![f] = "ok"]
                  /\ pc' = [pc EXCEPT ![f] = "trial"]
    /\ UNCHANGED <<source, simulation_config, cells, z_slices,
                   real_image_stack, synth_image_stack, gd>>

\* the finalize callback perturb returned, invoked once
Callback(f, accept) ==
    /\ pc[f] = "trial"
    /\ heap' = [heap EXCEPT ![cells[f]][trial[f].index] =
                  CallbackCell(accept, Cells(f)[trial[f].index], trial[f].old_cell)]
    /\ synth_image_stack' =
          [synth_image_stack EXCEPT ![f] =
              CallbackStack(accept, synth_image_stack[f],
                            trial[f].new_synth_image_stack)]
    /\ pc' = [pc EXCEPT ![f] = "idle"]
    /\ note' = [note EXCEPT ![f] = [op |-> "callback", accept |-> accept]]
    /\ actor' = f
    /\ trial' = [trial EXCEPT ![f] = NoTrial]
    /\ pre' = [pre EXCEPT ![f] = NoPre]
    /\ UNCHANGED <<ops, source, simulation_config, cells, z_slices,
                   real_image_stack, outcome, gd, probe>>


\* Frame.gradient_descent, lines 132-140: the locals and the baseline cost
GDBegin(f) ==
    /\ pc[f] = "idle"
    /\ ops < MaxOps
    /\ ops' = ops + 1
    /\ actor' = f
    /\ note' = [note EXCEPT ![f] = [op |-> "gd", accept |-> FALSE]]
    /\ pre' = [pre EXCEPT ![f] = [cells |-> Cells(f), synth |-> synth_image_stack[f]]]
    /\ probe' = [probe EXCEPT ![f] = NoProbe]
    /\ trial' = [trial EXCEPT ![f] = NoTrial]
    /\ gd' = [gd EXCEPT ![f] =
                [orig_cost |-> OrigCost(real_image_stack[f], synth_image_stack[f]),
                 index |-> 1, k |-> 1, old_cell |-> NoCell,
                 param_gradients |-> NoParams, directions |-> <<>>]]
    /\ pc' = [pc EXCEPT ![f] = "gd"]
    /\ UNCHANGED <<heap, source, simulation_config, cells, z_slices,
                   real_image_stack, synth_image_stack, outcome>>

\* lines 143-172: one probe of one parameter of the cell at gd.index (shift,
\* render, cost, gradient, reset), and after the cell's last parameter its
\* directions
GDProbe(f) ==
    /\ pc[f] = "gd"
    /\ gd[f].index <= Len(Cells(f))
    /\ LET g == gd[f]
           index == g.index
           old_cell == IF g.k = 1 THEN Cells(f)[index] ELSE g.old_cell
           params == Tunable(old_cell)
           param == params[g.k]
           probed == get_paramaterized_cell(Cells(f)[index], PerterbParam(param))
           probe_list == [Cells(f) EXCEPT ![index] = probed]
           new_synth_image_stack == Render(f, probe_list)
           new_cost == calculate_cost(real_image_stack[f], new_synth_image_stack)
           grads == (param :> Gradient(new_cost, g.orig_cost)) @@ g.param_gradients
       IN  /\ heap' = [heap EXCEPT ![cells[f]][index] = ResetCell(probed, old_cell)]
           /\ probe' = [probe EXCEPT ![f] =
                 [cells |-> probe_list, index |-> index, param |-> param,
                  new_cost |-> new_cost, shape |-> Shape(new_synth_image_stack)]]
           /\ gd' = [gd EXCEPT ![f] =
                 IF g.k = Len(params)
                 THEN [g EXCEPT !.index = index + 1, !.k = 1, !.old_cell = NoCell,
                                !.param_gradients = NoParams,
                                !.directions =
                                    Append(@, [p \in DOMAIN grads |-> Direction(grads[p])])]
                 ELSE [g EXCEPT !.k = g.k + 1, !.old_cell = old_cell,
                                !.param_gradients = grads]]
    /\ actor' = f
    /\ UNCHANGED <<ops, source, simulation_config, cells, z_slices,
                   real_image_stack, synth_image_stack, pc, outcome, trial, pre, note>>

\* lines 175-179: the directions applied to every cell, the cache regenerated
GDApply(f) ==
    /\ pc[f] = "gd"
    /\ gd[f].index > Len(Cells(f))
    /\ LET new_list == ApplyDirections(Cells(f), gd[f].directions)
       IN  /\ heap' = [heap EXCEPT ![cells[f]] = new_list]
           /\ synth_image_stack' = [synth_image_stack EXCEPT ![f] = Render(f, new_list)]
    /\ gd' = [gd EXCEPT ![f] = NoGd]
    /\ pc' = [pc EXCEPT ![f] = "idle"]
    /\ outcome' = [outcome EXCEPT ![f] = "ok"]
    /\ actor' = f
    /\ UNCHANGED <<ops, source, simulation_config, cells, z_slices,
                   real_image_stack, trial, pre, note, probe>>

Next ==
    \/ \E f \in Frames : Construct(f)
    \/ \E f \in Frames : Perturb(f)
    \/ \E f \in Frames, accept \in BOOLEAN : Callback(f, accept)
    \/ \E f \in Frames : GDBegin(f)
    \/ \E f \in Frames : GDProbe(f)
    \/ \E f \in Frames : GDApply(f)

Spec == Init /\ [][Next]_vars


\* ------------------------------------------------------- two Frames, one caller
\* Two Frames built by one caller, the second from the same list object as the
\* first or from a list of its own, each from its own image array.
TwoConfigs ==
    {cfg \in Configs : cfg.z_slices = 1 /\ cfg.z_scaling = 1 /\ cfg.background_color = 0}

InitTwo ==
    /\ InitFields
    /\ pc = <<"new", "new">>
    /\ \E cfg \in TwoConfigs, lst \in CellLists, ref \in Frames :
        /\ Len(lst) >= 1
        /\ simulation_config = <<cfg, cfg>>
        /\ heap = <<lst, lst>>
        /\ cells = <<1, ref>>
        /\ source = <<Uniform(cfg, 1), Uniform(cfg, 1)>>

\* the caller assigns to an element of a list it passed to a constructor
CallerMutatesCells(l, i, cell) ==
    /\ ops < MaxOps
    /\ ops' = ops + 1
    /\ i \in 1..Len(heap[l])
    /\ heap' = [heap EXCEPT ![l][i] = cell]
    /\ actor' = 0
    /\ UNCHANGED <<source, simulation_config, cells, z_slices, real_image_stack,
                   synth_image_stack, pc, outcome, trial, gd, pre, note, probe>>

\* the caller writes into an image array it passed to a constructor
CallerMutatesImage(f) ==
    /\ ops < MaxOps
    /\ ops' = ops + 1
    /\ source' = [source EXCEPT ![f][1][1][1] = 1 - @]
    /\ actor' = 0
    /\ UNCHANGED <<heap, simulation_config, cells, z_slices, real_image_stack,
                   synth_image_stack, pc, outcome, trial, gd, pre, note, probe>>

NextTwo ==
    \/ Next
    \/ \E l \in Frames, i \in 1..MaxCells : CallerMutatesCells(l, i, CellPool[1])
    \/ \E f \in Frames : CallerMutatesImage(f)

SpecTwo == InitTwo /\ [][NextTwo]_vars


\* ===================================================================== claims
Built(f) == pc[f] \in {"idle", "trial", "gd"}
RenderNow(f) == Render(f, Cells(f))
CostNow(f) == calculate_cost(real_image_stack[f], synth_image_stack[f])
IsEmpty(f) == cells[f] # 0 /\ Cells(f) = <<>>

\* C1 (as claimed): when the finalize callback is invoked with accept = FALSE,
\* the cells and the cached synthetic stack are again what they were before
\* perturb() was called.
C1_RejectRestores ==
    [][\A f \in Frames :
        (pc[f] = "trial" /\ pc'[f] = "idle" /\ ~note'[f].accept)
        => /\ Cells(f)' = pre[f].cells
           /\ synth_image_stack'[f] = pre[f].synth]_vars

\* C2 (as claimed): when the finalize callback is invoked with accept = TRUE,
\* the perturbed cell stays at the trial's index and the cache equals a fresh
\* render of the resulting cells.
C2_AcceptCommits ==
    [][\A f \in Frames :
        (pc[f] = "trial" /\ pc'[f] = "idle" /\ note'[f].accept)
        => /\ Cells(f)'[trial[f].index] = trial[f].new_cell
           /\ synth_image_stack'[f] = RenderNow(f)']_vars

\* C3: whenever no operation is in flight on a constructed Frame (after
\* construction, after a finalize callback with either decision, after a
\* gradient-descent pass) the cached synthetic stack equals a fresh render of
\* the current cells.
C3_CacheConsistent ==
    \A f \in Frames : pc[f] = "idle" => synth_image_stack[f] = RenderNow(f)

\* C3's case: a callback has just finished the last trial of the run and the
\* cells are no list the Frame could have been constructed from.
C3_Witness ==
    /\ pc[1] = "idle" /\ note[1].op = "callback" /\ ~note[1].accept
    /\ ops = MaxOps
    /\ Cells(1) \notin CellLists

\* C4 (as claimed): a Frame whose cell sequence is empty is never constructed:
\* construction (and the render in it) fails.
C4_EmptyAlwaysFails ==
    \A f \in Frames : IsEmpty(f) => pc[f] \in {"absent", "new", "failed"}

\* C4 (amended): construction fails, with ValueError and no synthetic stack,
\* exactly when cells is None; with an empty list construction and rendering
\* complete and the stack is the background everywhere; perturb() on an empty
\* list ends in ValueError and leaves the cells and the cache as they were.
C4_EmptyCells ==
    \A f \in Frames :
        /\ cells[f] = 0 => pc[f] \in {"absent", "new", "failed"}
        /\ pc[f] = "failed" =>
              cells[f] = 0 /\ outcome[f] = "ValueError" /\ synth_image_stack[f] = <<>>
        /\ (IsEmpty(f) /\ pc[f] # "new") =>
              /\ pc[f] \in {"idle", "gd"}
              /\ synth_image_stack[f] =
                    [k \in 1..simulation_config[f].z_slices |->
                        Full(get_image_shape(real_image_stack[f]),
                             simulation_config[f].background_color)]
              /\ note[f].op = "construct" => outcome[f] = "ok"
              /\ note[f].op = "perturb" =>
                    /\ outcome[f] = "ValueError"
                    /\ pc[f] = "idle"
                    /\ Cells(f) = pre[f].cells
                    /\ synth_image_stack[f] = pre[f].synth

\* C4's case: a Frame built from an empty list, on which perturb() has failed.
C4_Witness ==
    /\ IsEmpty(1) /\ pc[1] = "idle"
    /\ note[1].op = "perturb" /\ outcome[1] = "ValueError"
    /\ simulation_config[1].padding = 1

\* C5 (as claimed): one cell, one z-slice, padding 0, background 0, real stack
\* equal to the cell's rendering: the cost of the cache is 0, and a
\* gradient-descent pass begun there leaves the cell's parameters unchanged.
C5_Optimum ==
    \A f \in Frames :
        ( /\ pc[f] = "idle"
          /\ Len(Cells(f)) = 1
          /\ simulation_config[f].z_slices = 1
          /\ simulation_config[f].padding = 0
          /\ simulation_config[f].background_color = 0 )
        => /\ real_image_stack[f] = RenderNow(f) => CostNow(f) = 0
           /\ ( /\ note[f].op = "gd"
                /\ real_image_stack[f] = pre[f].synth
                /\ pre[f].synth = Render(f, pre[f].cells) )
              => Cells(f) = pre[f].cells

Symmetric(zs) == \A i \in 1..Len(zs) : \E j \in 1..Len(zs) : zs[j] = -zs[i]
EvenlySpaced(zs, s) == \A i \in 1..(Len(zs) - 1) : zs[i + 1] - zs[i] = s

\* C6 (as claimed): in every state of a constructed Frame the z-slice sequence
\* has the configured length, consecutive entries differ by the scale factor,
\* and the sequence is symmetric about zero.
C6_ZSlicesSymmetric ==
    \A f \in Frames :
        pc[f] \notin {"absent", "new"} =>
            /\ Len(z_slices[f]) = simulation_config[f].z_slices
            /\ EvenlySpaced(z_slices[f], simulation_config[f].z_scaling)
            /\ Symmetric(z_slices[f])

\* C6 (amended): in every state of a constructed Frame the z-slice sequence has
\* the configured length n, consecutive entries differ by the scale factor s
\* and the first entry is -s * floor(n / 2); it is symmetric about zero when n
\* is odd, and for even n (s # 0) it is not: -s * n / 2 is in it, s * n / 2 is
\* not.
C6_ZSlices ==
    \A f \in Frames :
        pc[f] \notin {"absent", "new"} =>
            LET n == simulation_config[f].z_slices
                s == simulation_config[f].z_scaling
                zs == z_slices[f]
            IN  /\ Len(zs) = n
                /\ EvenlySpaced(zs, s)
                /\ zs[1] = -s * (n \div 2)
                /\ n % 2 = 1 => Symmetric(zs)
                /\ (n % 2 = 0 /\ s # 0) => ~Symmetric(zs)

\* C6's case: a Frame with an even slice count, after the last operation of
\* the run.
C6_Witness ==
    /\ pc[1] = "idle" /\ ops = MaxOps
    /\ z_slices[1] = <<-2, 0>>

C8_FrameIndependence ==
    [][\A f \in Frames :
        (Built(f) /\ actor' # f)
        => /\ real_image_stack'[f] = real_image_stack[f]
           /\ (actor' \in Frames =>
                 /\ Cells(f)' = Cells(f)
                 /\ synth_image_stack'[f] = synth_image_stack[f])]_vars

\* C9: after a gradient-descent pass on a Frame whose single cell has one
\* tunable parameter (x), x has changed by -alpha * (new_cost - orig_cost) / delta,
\* new_cost being the cost of the render with x shifted by moving_delta and
\* orig_cost the cost of the cache before the pass: x grows when the probe
\* lowered the cost and shrinks when it raised it; the step is committed and the
\* cache regenerated whatever the resulting cost.
C9_Direction ==
    \A f \in Frames :
        ( /\ pc[f] = "idle" /\ note[f].op = "gd"
          /\ Len(pre[f].cells) = 1
          /\ Tunable(pre[f].cells[1]) = <<"x">> )
        => LET old == pre[f].cells[1]
               now == Cells(f)[1]
               shifted == [old EXCEPT !.x = @ + moving_delta * ParamUnit]
               new_cost == calculate_cost(real_image_stack[f], Render(f, <<shifted>>))
               orig_cost == calculate_cost(real_image_stack[f], pre[f].synth)
           IN  /\ (now.x - old.x) * inv_alpha * CostUnit
                     = -((new_cost - orig_cost) * inv_delta * ParamUnit)
               /\ new_cost < orig_cost => now.x > old.x
               /\ new_cost > orig_cost => now.x < old.x
               /\ now.name = old.name
               /\ synth_image_stack[f] = RenderNow(f)

\* C9's case: a pass on a single bar that moved it and left the cost higher
\* than before the pass.
C9_Witness ==
    /\ pc[1] = "idle" /\ note[1].op = "gd"
    /\ Len(pre[1].cells) = 1
    /\ Tunable(pre[1].cells[1]) = <<"x">>
    /\ Cells(1)[1].x # pre[1].cells[1].x
    /\ CostNow(1) > calculate_cost(real_image_stack[1], pre[1].synth)

\* C10: while a gradient-descent pass is in flight the cell list equals the
\* pre-pass list (every probed cell is restored, no direction is applied yet),
\* the baseline is the cost of the pre-pass cache, and the last probe was
\* rendered from the pre-pass list with exactly one parameter other than the
\* name, of exactly one cell, shifted by moving_delta, its gradient taken against
\* that baseline.
C10_ProbeIsolation ==
    \A f \in Frames :
        pc[f] = "gd" =>
            LET before == pre[f].cells
                baseline == calculate_cost(real_image_stack[f], pre[f].synth)
                pr == probe[f]
            IN  /\ Cells(f) = before
                /\ gd[f].orig_cost = baseline
                /\ Len(gd[f].directions) = gd[f].index - 1
                /\ pr.index # 0 =>
                      /\ pr.param # "name"
                      /\ pr.param \in DOMAIN before[pr.index]
                      /\ Len(pr.cells) = Len(before)
                      /\ \A i \in 1..Len(before) :
                            /\ DOMAIN pr.cells[i] = DOMAIN before[i]
                            /\ \A p \in DOMAIN before[i] :
                                  IF i = pr.index /\ p = pr.param
                                  THEN pr.cells[i][p] = before[i][p] + moving_delta * ParamUnit
                                  ELSE pr.cells[i][p] = before[i][p]
                      /\ pr.new_cost = calculate_cost(real_image_stack[f], Render(f, pr.cells))
                      /\ IF gd[f].index = pr.index
                         THEN gd[f].param_gradients[pr.param]
                                 = Gradient(pr.new_cost, baseline)
                         ELSE gd[f].directions[pr.index][pr.param]
                                 = Direction(Gradient(pr.new_cost, baseline))

\* C10's case: the second cell of a two-cell list has just been probed, the
\* first cell's directions being computed and not applied.
C10_Witness ==
    /\ pc[1] = "gd"
    /\ probe[1].index = 2
    /\ Len(gd[1].directions) >= 1
    /\ \E p \in DOMAIN gd[1].directions[1] : gd[1].directions[1][p] # 0

====
